---------------------------- MODULE Spec2Model ----------------------------
(***************************************************************************)
(* tornpsql: a psycopg2 connection manager (tornpsql/__init__.py,          *)
(* class Connection) and its LISTEN/NOTIFY view (tornpsql/pubsub.py,       *)
(* class PubSub).                                                          *)
(*                                                                         *)
(* The psycopg2 driver is the environment: the outcome of connect(), of    *)
(* cursor.execute() and of register_hstore() is chosen nondeterministically*)
(* by the action that calls it.  Everything the Python code does with the  *)
(* outcome is modelled as written.  A method is an operator from the state  *)
(* it is called in to the state it leaves, with the exception that leaves  *)
(* it; an action is one call of a method, for every input and every        *)
(* outcome of the driver.                                                   *)
(***************************************************************************)
EXTENDS Naturals, Sequences, FiniteSets

\* ---------------------------------------------------------------- bounds
MaxHandles == 2      \* handles psycopg2.connect may hand out in one run
MaxTypes   == 2      \* length the decoder registry may grow to
MaxNotifs  == 2      \* notifications the server sends in one run

\* ------------------------------------------------------ program constants
MoneyOid == 790      \* the OID the built-in money decoder is registered for
OtherOid == 16       \* some other type OID a caller registers a decoder for

None    == 0                      \* Python's None, for a handle
Handles == 1..MaxHandles

VARIABLES
    mgr,             \* "none": no Connection object yet; "raised": __init__
                     \* raised and there is none; "live": __init__ returned one
    db,              \* self._db: None or the handle held
    db_args,         \* self._db_args (self.host/self.database are fields of it)
    register_types,  \* self._register_types
    status,          \* driver: handle -> "unopened" | "open" | "closed"
    autocommit,      \* driver: handle -> value of its autocommit attribute
    usedargs,        \* driver: handle -> the parameters connect() opened it with
    closes,          \* driver: handle -> number of close() calls it received
    typecasters,     \* driver: psycopg2.extensions' global table, OID -> decoder
    applied,         \* register_type calls made since the held handle was opened
    faulted,         \* handles on which a statement hit an OperationalError
    listening,       \* server: handle -> channels its session has a LISTEN on
    socket,          \* driver: handle -> notifications arrived and not yet read
    notifies,        \* driver: handle -> its notifies list (read, not yet popped)
    sent,            \* server: notifications sent so far
    ps,              \* "none": no PubSub object; "live": pubsub() returned one
    ps_db,           \* PubSub._db
    channels,        \* PubSub._channels
    pc,              \* where the generator of PubSub.__iter__ stands
    yielded,         \* what the generator has yielded since it was started
    cancelled,       \* unsubscribe() emptied the list while the generator ran
    waits            \* select() calls that returned since then

\* What no method of Connection reads or writes.
psvars == <<notifies, sent, ps, ps_db, channels, pc, yielded, cancelled, waits>>

\* ------------------------------------------------------------ arguments
\* Connection(host_or_url, database, user, password, port).  A URL is held by
\* the parts the regular expression of __init__ looks for: the text before
\* "@" (user, password), whether "@" is there, host, port digits, database.
DiscreteArgs ==
    { [url |-> FALSE, at |-> FALSE, host |-> "h", port |-> p, database |-> "d",
       user |-> "u", password |-> "p"] : p \in {"5432", "abc"} }

UrlArgs ==
    { [url |-> TRUE, at |-> a, host |-> "h", port |-> p, database |-> "d",
       user |-> "u", password |-> "p"] :
          a \in BOOLEAN, p \in {"5432", ""} }

CtorArgs == DiscreteArgs \cup UrlArgs

IsDigits(s) == s = "5432"

\* re.search(...) of __init__: user and password may be empty, "@" must be
\* there, host, port (\d+) and database must each match at least one character.
UrlMatches(a) ==
    a.at /\ a.host # "" /\ IsDigits(a.port) /\ a.database # ""

NoArgs == [host |-> "", port |-> "", database |-> "", user |-> "", password |-> ""]

ArgsOf(a) ==
    [host |-> a.host, port |-> a.port, database |-> a.database,
     user |-> a.user, password |-> a.password]

\* --------------------------------------------------------------- decoders
Castings == {"f", "g"}
MoneyEntry == [oids |-> <<MoneyOid>>, name |-> "MONEY", casting |-> "_cast_money"]

\* What a caller may pass to register_type: oids a tuple or a list, name a
\* string or not, casting callable or not.
OidTuples == {<<>>, <<MoneyOid>>, <<OtherOid>>}

GoodTypeArgs ==
    [tuple : {TRUE}, oids : OidTuples, str : {TRUE}, callable : {TRUE},
     casting : Castings]

BadTypeArgs ==
    { t \in [tuple : BOOLEAN, oids : {<<>>, <<MoneyOid>>}, str : BOOLEAN,
             callable : BOOLEAN, casting : {"f"}] :
         ~(t.tuple /\ t.str /\ t.callable) }

TypeArgs == GoodTypeArgs \cup BadTypeArgs

EntryOf(t) == [oids |-> t.oids, name |-> "T", casting |-> t.casting]

Range(s) == { s[i] : i \in 1..Len(s) }

\* psycopg2.extensions.register_type(new_type(oids, name, casting)) with no
\* scope: every OID of the tuple is bound to the decoder in the global table.
RegisterGlobal(tc, e) ==
    [o \in DOMAIN tc |-> IF o \in Range(e.oids) THEN e.casting ELSE tc[o]]

RECURSIVE RegisterAll(_, _)
RegisterAll(tc, es) ==
    IF es = <<>> THEN tc
    ELSE RegisterAll(RegisterGlobal(tc, Head(es)), Tail(es))

\* ------------------------------------------------- the manager, as a record
\* The operators below are the methods of Connection.  Each takes the state
\* of the manager and the driver as a record and returns the state it leaves,
\* with exc the exception that leaves the method ("none": it returned) and
\* attempts the psycopg2.connect calls made on the way.
M ==
    [db |-> db, args |-> db_args, types |-> register_types, status |-> status,
     autocommit |-> autocommit, usedargs |-> usedargs, closes |-> closes,
     typecasters |-> typecasters, applied |-> applied, faulted |-> faulted,
     listening |-> listening, socket |-> socket,
     exc |-> "none", attempts |-> 0, used |-> None, driver |-> "none"]

Commit(m) ==
    /\ db' = m.db
    /\ db_args' = m.args
    /\ register_types' = m.types
    /\ status' = m.status
    /\ autocommit' = m.autocommit
    /\ usedargs' = m.usedargs
    /\ closes' = m.closes
    /\ typecasters' = m.typecasters
    /\ applied' = m.applied
    /\ faulted' = m.faulted
    /\ listening' = m.listening
    /\ socket' = m.socket

Opened(st) == { h \in Handles : st[h] # "unopened" }
Fresh(st)  == Cardinality(Opened(st)) + 1
CanOpen(st) == Fresh(st) \in Handles

\* What psycopg2.connect may do: hand out a handle, or raise OperationalError.
ConnectOutcomes(st) ==
    IF CanOpen(st) THEN {"ok", "OperationalError"} ELSE {"OperationalError"}

\* What register_hstore may do: succeed, raise ProgrammingError (no hstore in
\* the database), or raise another error while it queries the handle.
HstoreOutcomes == {"ok", "ProgrammingError", "OperationalError"}

\* The driver's part in one reconnect(): <<connect outcome, hstore outcome>>;
\* register_hstore is reached only when connect returned a handle.
ConnectRuns(st) ==
    { <<c, hs>> \in ConnectOutcomes(st) \X HstoreOutcomes : c = "ok" \/ hs = "ok" }

\* The driver's part in a call that connects only when no handle is held.
LazyRuns(d, st) == IF d = None THEN ConnectRuns(st) ELSE { <<"ok", "ok">> }

\* What cursor.execute / cursor.executemany may do, and cursor.mogrify.
ExecuteOutcomes == {"ok", "OperationalError", "ProgrammingError"}
MogrifyOutcomes == {"ok", "ProgrammingError"}

\* The statement is reached only when _cursor() returned.
StatementRuns(d, st) ==
    { <<r, x>> \in LazyRuns(d, st) \X ExecuteOutcomes :
         (d = None /\ r # <<"ok", "ok">> /\ r # <<"ok", "ProgrammingError">>)
            => x = "ok" }

MogrifyRuns(d, st) ==
    { <<r, x>> \in LazyRuns(d, st) \X MogrifyOutcomes :
         (d = None /\ r # <<"ok", "ok">> /\ r # <<"ok", "ProgrammingError">>)
            => x = "ok" }

\* close() that releases the handle and keeps it as self._db.
close_keep(m) ==
    IF m.db # None
    THEN [m EXCEPT !.status[m.db] = "closed",
                   !.closes[m.db] = @ + 1,
                   !.listening[m.db] = {},
                   !.socket[m.db] = <<>>,
                   !.applied = <<>>]
    ELSE m

\* Connection.close.  With the handle the server's session ends: its LISTENs
\* and what was still on the socket are gone.
close(m) ==
    IF m.db # None
    THEN [m EXCEPT !.status[m.db] = "closed",
                   !.closes[m.db] = @ + 1,
                   !.listening[m.db] = {},
                   !.socket[m.db] = <<>>,
                   !.applied = <<>>,
                   !.db = None]
    ELSE m

\* reconnect() variants: one that does not close the handle it holds, one that
\* does not replay the registered decoders, one that leaves the new handle
\* out of auto-commit mode.
reconnect_noclose(m, c, hs) ==
    LET m1 == [m EXCEPT !.attempts = @ + 1]
        h  == Fresh(m1.status)
        m2 == [m1 EXCEPT !.db = h,
                         !.status[h] = "open",
                         !.usedargs[h] = m1.args,
                         !.autocommit[h] = TRUE,
                         !.typecasters = RegisterAll(RegisterGlobal(@, MoneyEntry), m1.types),
                         !.applied = <<MoneyEntry>> \o m1.types]
    IN  IF c # "ok" THEN [m1 EXCEPT !.exc = c]
        ELSE IF hs \in {"ok", "ProgrammingError"} THEN m2
        ELSE [m2 EXCEPT !.exc = hs]

reconnect_noreplay(m, c, hs) ==
    LET m1 == [close(m) EXCEPT !.attempts = @ + 1]
        h  == Fresh(m1.status)
        m2 == [m1 EXCEPT !.db = h,
                         !.status[h] = "open",
                         !.usedargs[h] = m1.args,
                         !.autocommit[h] = TRUE,
                         !.typecasters = RegisterGlobal(@, MoneyEntry),
                         !.applied = <<MoneyEntry>>]
    IN  IF c # "ok" THEN [m1 EXCEPT !.exc = c]
        ELSE IF hs \in {"ok", "ProgrammingError"} THEN m2
        ELSE [m2 EXCEPT !.exc = hs]

reconnect_noautocommit(m, c, hs) ==
    LET m1 == [close(m) EXCEPT !.attempts = @ + 1]
        h  == Fresh(m1.status)
        m2 == [m1 EXCEPT !.db = h,
                         !.status[h] = "open",
                         !.usedargs[h] = m1.args,
                         !.typecasters = RegisterAll(RegisterGlobal(@, MoneyEntry), m1.types),
                         !.applied = <<MoneyEntry>> \o m1.types]
    IN  IF c # "ok" THEN [m1 EXCEPT !.exc = c]
        ELSE IF hs \in {"ok", "ProgrammingError"} THEN m2
        ELSE [m2 EXCEPT !.exc = hs]

\* Connection.reconnect, with the driver's outcomes c (connect) and hs (hstore)
reconnect(m, c, hs) ==
    LET m1 == [close(m) EXCEPT !.attempts = @ + 1]
        h  == Fresh(m1.status)
        m2 == [m1 EXCEPT !.db = h,
                         !.status[h] = "open",
                         !.usedargs[h] = m1.args,
                         !.autocommit[h] = TRUE]
        m3 == [m2 EXCEPT !.typecasters = RegisterGlobal(@, MoneyEntry),
                         !.applied = <<MoneyEntry>>]
        m4 == [m3 EXCEPT !.typecasters = RegisterAll(@, m3.types),
                         !.applied = @ \o m3.types]
    IN  IF c # "ok" THEN [m1 EXCEPT !.exc = c]
        ELSE IF hs \in {"ok", "ProgrammingError"} THEN m4
        ELSE [m4 EXCEPT !.exc = hs]

\* _ensure_connected() that reconnects whether or not a handle is held.
_ensure_connected_always(m, c, hs) == reconnect(m, c, hs)

\* Connection._ensure_connected
_ensure_connected(m, c, hs) ==
    IF m.db = None THEN reconnect(m, c, hs) ELSE m

\* Connection._cursor: the handle is needed; self._db.cursor() follows.
_cursor(m, c, hs) == _ensure_connected(m, c, hs)

\* _execute that re-raises an OperationalError without close().
_execute_noclose(m, x) ==
    LET m1 == [m EXCEPT !.used = m.db, !.driver = x]
    IN  IF x = "OperationalError"
        THEN [m1 EXCEPT !.faulted = @ \cup {m.db}, !.exc = x]
        ELSE IF x = "ok" THEN m1
        ELSE [m1 EXCEPT !.exc = x]

\* _execute whose except clause catches every error of the driver.
_execute_closeany(m, x) ==
    LET m1 == [m EXCEPT !.used = m.db, !.driver = x]
    IN  IF x = "ok" THEN m1
        ELSE [close([m1 EXCEPT !.faulted = @ \cup {m.db}]) EXCEPT !.exc = x]

\* Connection._execute and Connection._executemany (the same code but for the
\* cursor method called): x is what cursor.execute / cursor.executemany does.
_execute(m, x) ==
    LET m1 == [m EXCEPT !.used = m.db, !.driver = x]
    IN  IF x = "OperationalError"
        THEN [close([m1 EXCEPT !.faulted = @ \cup {m.db}]) EXCEPT !.exc = x]
        ELSE IF x = "ok" THEN m1
        ELSE [m1 EXCEPT !.exc = x]

\* query, execute, get, executemany, execute_rowcount: _cursor(), then the
\* statement; an exception of either leaves the method (the except clauses
\* close the cursor and re-raise).
runStatement(m, c, hs, x) ==
    LET m1 == _cursor(m, c, hs)
    IN  IF m1.exc # "none" THEN m1 ELSE _execute(m1, x)

\* Connection.mogrify: _cursor(), then cursor.mogrify, which never reaches
\* _execute.
mogrify(m, c, hs, x) ==
    LET m1 == _cursor(m, c, hs)
    IN  IF m1.exc # "none" THEN m1
        ELSE [m1 EXCEPT !.used = m1.db, !.driver = x,
                        !.exc = IF x = "ok" THEN "none" ELSE x]

\* register_type that records the entry before it checks its arguments.
register_type_appendfirst(m, t) ==
    LET m1 == [m EXCEPT !.types = Append(@, EntryOf(t))]
    IN  IF ~t.tuple \/ ~t.str \/ ~t.callable
        THEN [m1 EXCEPT !.exc = "AssertionError"]
        ELSE IF m1.db # None
             THEN [m1 EXCEPT !.typecasters = RegisterGlobal(@, EntryOf(t)),
                             !.applied = Append(@, EntryOf(t))]
             ELSE m1

\* Connection.register_type
register_type(m, t) ==
    IF ~t.tuple \/ ~t.str \/ ~t.callable
    THEN [m EXCEPT !.exc = "AssertionError"]
    ELSE LET m1 == [m EXCEPT !.types = Append(@, EntryOf(t))]
         IN  IF m1.db # None
             THEN [m1 EXCEPT !.typecasters = RegisterGlobal(@, EntryOf(t)),
                             !.applied = Append(@, EntryOf(t))]
             ELSE m1

\* Connection.__init__: the arguments are parsed, then reconnect() is tried
\* and any Exception of it is logged and dropped.
ctorParses(a) ==
    IF a.url THEN UrlMatches(a) ELSE IsDigits(a.port)

ctorError(a) ==
    IF a.url THEN "AttributeError" ELSE "ValueError"

__init__(m, a, c, hs) ==
    IF ~ctorParses(a) THEN [m EXCEPT !.exc = ctorError(a)]
    ELSE LET m0 == [m EXCEPT !.db = None, !.args = ArgsOf(a), !.types = <<>>]
         IN  [reconnect(m0, c, hs) EXCEPT !.exc = "none"]

\* -------------------------------------------------------------------- Init
Init ==
    /\ mgr = "none"
    /\ db = None
    /\ db_args = NoArgs
    /\ register_types = <<>>
    /\ status = [h \in Handles |-> "unopened"]
    /\ autocommit = [h \in Handles |-> FALSE]
    /\ usedargs = [h \in Handles |-> NoArgs]
    /\ closes = [h \in Handles |-> 0]
    /\ typecasters = [o \in {MoneyOid, OtherOid} |-> "builtin"]
    /\ applied = <<>>
    /\ faulted = {}
    /\ listening = [h \in Handles |-> {}]
    /\ socket = [h \in Handles |-> <<>>]
    /\ notifies = [h \in Handles |-> <<>>]
    /\ sent = 0
    /\ ps = "none"
    /\ ps_db = None
    /\ channels = <<>>
    /\ pc = "idle"
    /\ yielded = <<>>
    /\ cancelled = FALSE
    /\ waits = 0

\* ----------------------------------------------------------------- actions
\* Connection(...)
Construct ==
    /\ mgr # "live"
    /\ \E a \in CtorArgs, r \in ConnectRuns(status) :
          LET m == __init__(M, a, r[1], r[2])
          IN  /\ Commit(m)
              /\ mgr' = IF m.exc = "none" THEN "live" ELSE "raised"
    /\ UNCHANGED psvars

\* conn.close()
Close ==
    /\ mgr = "live"
    /\ LET m == close(M)
       IN  /\ Commit(m)
    /\ UNCHANGED <<mgr, psvars>>

\* conn.reconnect()
Reconnect ==
    /\ mgr = "live"
    /\ \E r \in ConnectRuns(status) :
          LET m == reconnect(M, r[1], r[2])
          IN  /\ Commit(m)
    /\ UNCHANGED <<mgr, psvars>>

\* conn._ensure_connected()
EnsureConnected ==
    /\ mgr = "live"
    /\ \E r \in LazyRuns(db, status) :
          LET m == _ensure_connected(M, r[1], r[2])
          IN  /\ Commit(m)
    /\ UNCHANGED <<mgr, psvars>>

\* conn.query(...), conn.execute(...), conn.get(...), conn.executemany(...),
\* conn.execute_rowcount(...)
Statement ==
    /\ mgr = "live"
    /\ \E r \in StatementRuns(db, status) :
          LET m == runStatement(M, r[1][1], r[1][2], r[2])
          IN  /\ Commit(m)
    /\ UNCHANGED <<mgr, psvars>>

\* conn.mogrify(...)
Mogrify ==
    /\ mgr = "live"
    /\ \E r \in MogrifyRuns(db, status) :
          LET m == mogrify(M, r[1][1], r[1][2], r[2])
          IN  /\ Commit(m)
    /\ UNCHANGED <<mgr, psvars>>

\* conn.register_type(oids, name, casting)
RegisterType ==
    /\ mgr = "live"
    /\ Len(register_types) < MaxTypes
    /\ \E t \in TypeArgs :
          LET m == register_type(M, t)
          IN  /\ Commit(m)
    /\ UNCHANGED <<mgr, psvars>>

\* ------------------------------------------------------------------ PubSub
connvars == <<mgr, db, db_args, register_types, status, autocommit, usedargs,
              closes, typecasters, applied, faulted>>

Channels == {"a", "b"}
NoChannel == ""        \* unsubscribe's channel=None (any falsy argument)

\* What a caller may pass to subscribe: a list or tuple of names (empty, one
\* name, two names in either order, a name twice), or something else (a
\* string, a set).
ChannelLists ==
    { <<>>, <<"a">>, <<"a", "b">>, <<"b", "a">>, <<"a", "a">> }

SubscribeArgs ==
    [seq : {TRUE}, names : ChannelLists] \cup { [seq |-> FALSE, names |-> <<"a">>] }

\* The PubSub object with the part of the driver and server its methods
\* touch; exc is the exception that leaves the method, cmds the commands the
\* server executed for it.
P ==
    [db |-> ps_db, channels |-> channels, status |-> status,
     listening |-> listening, exc |-> "none", cmds |-> <<>>]

\* self._cur.execute(...) on the PubSub's handle: a closed handle raises at
\* once, an open one may lose the connection at any command.  k is the number
\* of commands, of n, the server executes before the driver raises (n: none
\* raises).
ExecRuns(p, n) == IF p.status[p.db] = "open" THEN 0..n ELSE {0}
ExecError(p) ==
    IF p.status[p.db] = "open" THEN "OperationalError" ELSE "InterfaceError"

RECURSIVE Issue(_, _, _)
Issue(ls, verb, chs) ==
    IF chs = <<>> THEN ls
    ELSE Issue(IF verb = "LISTEN" THEN ls \cup {Head(chs)} ELSE ls \ {Head(chs)},
               verb, Tail(chs))

Commands(verb, chs) == [i \in 1..Len(chs) |-> <<verb, chs[i]>>]

\* list.remove: the first occurrence goes, the rest keeps its order.
RECURSIVE remove(_, _)
remove(chs, ch) ==
    IF chs = <<>> THEN <<>>
    ELSE IF Head(chs) = ch THEN Tail(chs)
    ELSE <<Head(chs)>> \o remove(Tail(chs), ch)

\* a subscribe() that adds the names to the list it has
subscribe_extend(p, a) ==
    IF ~a.seq THEN [p EXCEPT !.exc = "AssertionError"]
    ELSE [p EXCEPT !.channels = @ \o a.names]

\* PubSub.subscribe
subscribe(p, a) ==
    IF ~a.seq THEN [p EXCEPT !.exc = "AssertionError"]
    ELSE [p EXCEPT !.channels = a.names]

\* a listen() that does not look at the channel list first
listen_unchecked(p, k) ==
    LET ran == SubSeq(p.channels, 1, k)
    IN  [p EXCEPT !.listening[p.db] = Issue(@, "LISTEN", ran),
                  !.cmds = Commands("LISTEN", ran),
                  !.exc = IF k < Len(p.channels) THEN ExecError(p) ELSE "none"]

\* PubSub.listen
listen(p, k) ==
    IF p.channels = <<>> THEN [p EXCEPT !.exc = "AssertionError"]
    ELSE LET ran == SubSeq(p.channels, 1, k)
         IN  [p EXCEPT !.listening[p.db] = Issue(@, "LISTEN", ran),
                       !.cmds = Commands("LISTEN", ran),
                       !.exc = IF k < Len(p.channels) THEN ExecError(p)
                               ELSE "none"]

\* an unsubscribe() that issues its UNLISTENs and keeps the list
unsubscribe_keep(p, ch, k) ==
    IF ch # NoChannel
    THEN IF ch \notin Range(p.channels)
         THEN [p EXCEPT !.exc = "AssertionError"]
         ELSE IF k = 0 THEN [p EXCEPT !.exc = ExecError(p)]
         ELSE [p EXCEPT !.listening[p.db] = Issue(@, "UNLISTEN", <<ch>>),
                        !.cmds = Commands("UNLISTEN", <<ch>>),
                        !.channels = remove(@, ch)]
    ELSE LET ran == SubSeq(p.channels, 1, k)
         IN  [p EXCEPT !.listening[p.db] = Issue(@, "UNLISTEN", ran),
                       !.cmds = Commands("UNLISTEN", ran),
                       !.exc = IF k < Len(p.channels) THEN ExecError(p)
                               ELSE "none"]

\* PubSub.unsubscribe
unsubscribe(p, ch, k) ==
    IF ch # NoChannel
    THEN IF ch \notin Range(p.channels)
         THEN [p EXCEPT !.exc = "AssertionError"]
         ELSE IF k = 0 THEN [p EXCEPT !.exc = ExecError(p)]
         ELSE [p EXCEPT !.listening[p.db] = Issue(@, "UNLISTEN", <<ch>>),
                        !.cmds = Commands("UNLISTEN", <<ch>>),
                        !.channels = remove(@, ch)]
    ELSE LET ran == SubSeq(p.channels, 1, k)
         IN  [p EXCEPT !.listening[p.db] = Issue(@, "UNLISTEN", ran),
                       !.cmds = Commands("UNLISTEN", ran),
                       !.channels = IF k < Len(p.channels) THEN @ ELSE <<>>,
                       !.exc = IF k < Len(p.channels) THEN ExecError(p)
                               ELSE "none"]


\* Connection.pubsub: PubSub(self._db), whose __init__ sets the isolation
\* level of the handle it is given, takes a cursor of it and starts with no
\* channels.  Nothing connects; with no handle held, None has no
\* set_isolation_level.
pubsub(m) ==
    IF m.db = None THEN [m EXCEPT !.exc = "AttributeError"]
    ELSE [m EXCEPT !.autocommit[m.db] = TRUE, !.used = m.db]

Pubsub ==
    /\ mgr = "live"
    /\ LET m == pubsub(M)
       IN  /\ Commit(m)
           /\ IF m.exc = "none"
              THEN /\ ps' = "live"
                   /\ ps_db' = m.db
                   /\ channels' = <<>>
                   /\ pc' = "idle"
                   /\ yielded' = <<>>
                   /\ cancelled' = FALSE
                   /\ waits' = 0
              ELSE UNCHANGED <<ps, ps_db, channels, pc, yielded, cancelled, waits>>
    /\ UNCHANGED <<mgr, notifies, sent>>

\* The generator of __iter__ is running: started and neither returned nor
\* raised.
Iterating == pc \in {"check", "select", "poll", "drain"}

\* p.subscribe(channels)
Subscribe ==
    /\ ps = "live"
    /\ \E a \in SubscribeArgs :
          LET p == subscribe(P, a)
          IN  /\ channels' = p.channels
              /\ cancelled' = (cancelled /\ p.exc # "none")
              /\ waits' = IF p.exc # "none" THEN waits ELSE 0
    /\ UNCHANGED <<connvars, listening, socket, notifies, sent, ps, ps_db, pc,
                   yielded>>

\* p.listen()
Listen ==
    /\ ps = "live"
    /\ \E k \in ExecRuns(P, Len(channels)) :
          LET p == listen(P, k)
          IN  /\ listening' = p.listening
    /\ UNCHANGED <<connvars, socket, notifies, sent, ps, ps_db, channels, pc,
                   yielded, cancelled, waits>>

\* p.unsubscribe(channel) and p.unsubscribe()
Unsubscribe ==
    /\ ps = "live"
    /\ \E ch \in Channels \cup {NoChannel} :
       \E k \in ExecRuns(P, IF ch = NoChannel THEN Len(channels) ELSE 1) :
          LET p == unsubscribe(P, ch, k)
              all == ch = NoChannel /\ p.exc = "none" /\ Iterating
          IN  /\ listening' = p.listening
              /\ channels' = p.channels
              /\ cancelled' = (all \/ cancelled)
              /\ waits' = IF all THEN 0 ELSE waits
    /\ UNCHANGED <<connvars, socket, notifies, sent, ps, ps_db, pc, yielded>>

\* The server delivers a notification on a channel a session listens on.  A
\* notification is held by its number in the order the server sent them.
Notify ==
    /\ sent < MaxNotifs
    /\ \E h \in Handles :
          /\ status[h] = "open"
          /\ listening[h] # {}
          /\ socket' = [socket EXCEPT ![h] = Append(@, sent + 1)]
    /\ sent' = sent + 1
    /\ UNCHANGED <<connvars, listening, notifies, ps, ps_db, channels, pc,
                   yielded, cancelled, waits>>

\* ------------------------------------------------------- PubSub.__iter__
\* The generator runs in the execution context that iterates it; the other
\* actions are calls from any context.  One action is one step of it, up to
\* the next place where it waits or hands a notification out.

\* iter(p) and the first next(): the generator starts at the loop test.
IterStart ==
    /\ ps = "live"
    /\ pc \in {"idle", "done", "raised"}
    /\ pc' = "check"
    /\ yielded' = <<>>
    /\ cancelled' = FALSE
    /\ waits' = 0
    /\ UNCHANGED <<connvars, listening, socket, notifies, sent, ps, ps_db,
                   channels>>

\* a loop that never looks at the channel list
loopTestTrue(chs) == TRUE

\* while len(self._channels) > 0
loopTest(chs) == Len(chs) > 0

IterCheck ==
    /\ pc = "check"
    /\ pc' = IF loopTest(channels) THEN "select" ELSE "done"
    /\ UNCHANGED <<connvars, listening, socket, notifies, sent, ps, ps_db,
                   channels, yielded, cancelled, waits>>

\* select([self._db], [], [], 5) returns: the handle is readable, or the five
\* seconds passed with nothing to read; on a closed handle fileno() raises.
IterSelect ==
    /\ pc = "select"
    /\ pc' = IF status[ps_db] # "open" THEN "raised"
             ELSE IF socket[ps_db] # <<>> THEN "poll"
             ELSE "check"
    /\ waits' = IF cancelled /\ waits < 2 THEN waits + 1 ELSE waits
    /\ UNCHANGED <<connvars, listening, socket, notifies, sent, ps, ps_db,
                   channels, yielded, cancelled>>

\* self._db.poll(): what arrived is appended to the handle's notifies list.
IterPoll ==
    /\ pc = "poll"
    /\ IF status[ps_db] # "open"
       THEN /\ pc' = "raised"
            /\ UNCHANGED <<socket, notifies>>
       ELSE /\ pc' = "drain"
            /\ notifies' = [notifies EXCEPT ![ps_db] = @ \o socket[ps_db]]
            /\ socket' = [socket EXCEPT ![ps_db] = <<>>]
    /\ UNCHANGED <<connvars, listening, sent, ps, ps_db, channels, yielded,
                   cancelled, waits>>

\* a pop() that empties the list
popped_all(ns) == <<>>

\* list.pop(): the last element of the list
pop(ns) == ns[Len(ns)]
popped(ns) == SubSeq(ns, 1, Len(ns) - 1)

\* while self._db.notifies: yield self._db.notifies.pop()
IterDrain ==
    /\ pc = "drain"
    /\ IF notifies[ps_db] # <<>>
       THEN /\ yielded' = Append(yielded, pop(notifies[ps_db]))
            /\ notifies' = [notifies EXCEPT ![ps_db] = popped(@)]
            /\ pc' = "drain"
       ELSE /\ pc' = "check"
            /\ UNCHANGED <<yielded, notifies>>
    /\ UNCHANGED <<connvars, listening, socket, sent, ps, ps_db, channels,
                   cancelled, waits>>

IterStep == IterCheck \/ IterSelect \/ IterPoll \/ IterDrain

Next ==
    \/ Construct
    \/ Close
    \/ Reconnect
    \/ EnsureConnected
    \/ Statement
    \/ Mogrify
    \/ RegisterType
    \/ Pubsub

vars == <<mgr, db, db_args, register_types, status, autocommit, usedargs,
          closes, typecasters, applied, faulted, listening, socket, notifies,
          sent, ps, ps_db, channels, pc, yielded, cancelled, waits>>

\* Every method of Connection, and pubsub().
Spec == Init /\ [][Next]_vars

\* The PubSub of a manager whose handle comes and goes: the methods of
\* PubSub, its generator and the server's notifications, with the calls of
\* Connection that open, close or lose the handle.  (register_type and
\* mogrify touch nothing a PubSub reads.)
PNext ==
    \/ Construct
    \/ Close
    \/ Reconnect
    \/ Statement
    \/ Pubsub
    \/ Subscribe
    \/ Listen
    \/ Unsubscribe
    \/ Notify
    \/ IterStart
    \/ IterStep

PSpec == Init /\ [][PNext]_vars

\* The same, with the generator driven on: whoever iterates it asks for the
\* next notification again, and select() returns within its five seconds.
LiveSpec == PSpec /\ WF_vars(IterStep)


\* ================================================================== claims
Open == { h \in Handles : status[h] = "open" }

IsPrefix(s, t) == Len(s) <= Len(t) /\ SubSeq(t, 1, Len(s)) = s

StartTable == [o \in {MoneyOid, OtherOid} |-> "builtin"]

\* ---------------------------------------------------------------------- C1
\* C1: whenever cursor.execute / cursor.executemany raises an operational
\* fault inside a statement call, the call ends with that error raised to the
\* caller, with no handle held and the handle the statement ran on closed;
\* and no call of the manager ever runs on a handle that faulted before.
C1_FaultDisconnects ==
    mgr = "live" =>
       /\ db \notin faulted
       /\ \A h \in faulted : status[h] = "closed"
       /\ \A r \in StatementRuns(db, status) :
             LET m == runStatement(M, r[1][1], r[1][2], r[2])
             IN  /\ m.used # None => m.used \notin faulted
                 /\ m.driver = "OperationalError" =>
                       /\ m.exc = "OperationalError"
                       /\ m.db = None
                       /\ m.status[m.used] = "closed"
                       /\ m.used \in m.faulted
       /\ \A r \in MogrifyRuns(db, status) :
             LET m == mogrify(M, r[1][1], r[1][2], r[2])
             IN  m.used # None => m.used \notin faulted

\* a statement hit an operational fault and the manager holds no handle
C1_Witness ==
    mgr = "live" /\ faulted # {} /\ db = None /\ status[1] = "closed"

\* ---------------------------------------------------------------------- C2
\* C2: Connection(...) never raises, whatever the arguments and whatever the
\* first connect does (no run reaches a constructor that raised); a manager
\* whose connect attempts all failed holds no handle.
C2_ConstructionNeverRaises ==
    /\ mgr # "raised"
    /\ (mgr = "live" /\ Opened(status) = {}) => db = None

\* ---------------------------------------------------------------------- C3
\* C3: _ensure_connected() called with no handle held (as after a statement's
\* operational fault) calls psycopg2.connect exactly once; called with a
\* handle held it calls it not at all, opens no handle, closes none and
\* keeps the handle held.
C3_EnsureConnectedOnce ==
    mgr = "live" =>
       \A r \in LazyRuns(db, status) :
          LET m == _ensure_connected(M, r[1], r[2])
          IN  /\ db = None => m.attempts = 1
              /\ (db = None /\ r[1] = "ok") => (m.db # None /\ m.status[m.db] = "open")
              /\ db # None =>
                    /\ m.attempts = 0
                    /\ m.db = db
                    /\ m.status = status
                    /\ m.closes = closes
                    /\ m.exc = "none"

\* after a fault on the first handle the manager holds a second one
C3_Witness ==
    mgr = "live" /\ 1 \in faulted /\ db = 2 /\ status[2] = "open"

\* ---------------------------------------------------------------------- C4
\* C4: in every reachable state at most one handle is open, and an open
\* handle is the one the manager holds.
C4_AtMostOneHandle ==
    /\ Cardinality(Open) <= 1
    /\ Open = IF db = None THEN {} ELSE {db}

\* the manager has gone from one handle to the next
C4_Witness ==
    status[1] = "closed" /\ db = 2 /\ status[2] = "open"

\* ---------------------------------------------------------------------- C5
\* Whenever a handle is held, the register_type calls made since it was
\* opened are the money decoder followed by the whole registry in order, and
\* the global decoder table is what those calls, made in that order, leave.
C5_Replayed ==
    (mgr = "live" /\ db # None) =>
       /\ applied = <<MoneyEntry>> \o register_types
       /\ typecasters = RegisterAll(StartTable, applied)

C5_AppendOnly ==
    [][mgr = "live" => IsPrefix(register_types, register_types')]_vars

C6_ImplicitReconnect ==
    (mgr = "live" /\ db = None) =>
       /\ \A r \in StatementRuns(db, status) :
             LET m == runStatement(M, r[1][1], r[1][2], r[2])
             IN  /\ m.attempts = 1
                 /\ r[1][1] # "ok" => (m.exc = r[1][1] /\ m.db = None)
       /\ \A r \in MogrifyRuns(db, status) :
             LET m == mogrify(M, r[1][1], r[1][2], r[2])
             IN  /\ m.attempts = 1
                 /\ r[1][1] # "ok" => (m.exc = r[1][1] /\ m.db = None)
       /\ pubsub(M).attempts = 1

\* ---------------------------------------------------------------------- C7
\* C7: close() never raises and leaves no handle held; a second close() after
\* it changes nothing; no handle is ever closed twice.
C7_CloseIdempotent ==
    LET m == close(M)
    IN  /\ m.exc = "none"
        /\ m.db = None
        /\ close(m) = m
        /\ db = None => m = M
        /\ \A h \in Handles :
              /\ closes[h] <= 1
              /\ m.closes[h] <= 1
              /\ m.closes[h] = closes[h] + (IF h = db THEN 1 ELSE 0)

\* a handle was closed and none is held
C7_Witness ==
    mgr = "live" /\ db = None /\ closes[1] = 1 /\ status[1] = "closed"

\* ---------------------------------------------------------------------- C8
\* reconnect() closes the handle held, then connects with the parameters
\* __init__ stored: when connect returns, a new open handle in auto-commit
\* mode is held; when connect raises, the error is raised to the caller and
\* no handle is held.  The handle held is never a closed one.
C8_Reconnect ==
    mgr = "live" =>
       /\ db # None => (status[db] = "open" /\ usedargs[db] = db_args)
       /\ \A r \in ConnectRuns(status) :
             LET m == reconnect(M, r[1], r[2])
             IN  /\ db # None => m.status[db] = "closed"
                 /\ m.args = db_args
                 /\ m.attempts = 1
                 /\ r[1] = "ok" =>
                       /\ m.db # None /\ m.db # db
                       /\ status[m.db] = "unopened"
                       /\ m.status[m.db] = "open"
                       /\ m.autocommit[m.db]
                       /\ m.usedargs[m.db] = db_args
                 /\ r[1] # "ok" =>
                       /\ m.exc = r[1]
                       /\ m.db = None

C8_ArgsFixed == [][mgr = "live" => db_args' = db_args]_vars

\* C8: reconnect() closes the handle held and connects with the stored
\* parameters, which no call of a live manager changes; success leaves a new
\* open auto-commit handle held, a failed connect leaves the error raised,
\* the old handle closed and no handle held.
C8_ReconnectClosesThenConnects == []C8_Reconnect /\ C8_ArgsFixed

\* a reconnect replaced the first handle by a second
C8_Witness ==
    /\ mgr = "live" /\ status[1] = "closed" /\ closes[1] = 1
    /\ db = 2 /\ autocommit[2] /\ usedargs[2] = db_args

\* ---------------------------------------------------------------------- C9
\* C9 as stated: register_type raises when the identifiers are empty or the
\* decoder is not callable, and a call that raises changes neither the
\* registry nor the decoders in force.
C9_EmptyIdentifiersRejected ==
    mgr = "live" =>
       \A t \in TypeArgs :
          LET m == register_type(M, t)
          IN  /\ (t.oids = <<>> \/ ~t.callable) => m.exc # "none"
              /\ m.exc # "none" =>
                    (m.types = register_types /\ m.typecasters = typecasters
                       /\ m.applied = applied)

\* C9 as amended: register_type raises exactly when the identifiers are not a
\* tuple, the name is not a string or the decoder is not callable, and a call
\* that raises changes neither the registry nor the decoders in force; an
\* empty tuple of identifiers is accepted and recorded.
C9_BadArgumentsRejected ==
    mgr = "live" =>
       \A t \in TypeArgs :
          LET m == register_type(M, t)
          IN  /\ m.exc # "none" <=> (~t.tuple \/ ~t.str \/ ~t.callable)
              /\ m.exc # "none" =>
                    (m.types = register_types /\ m.typecasters = typecasters
                       /\ m.applied = applied /\ m.db = db)
              /\ m.exc = "none" => m.types = Append(register_types, EntryOf(t))

\* a decoder for no type at all is in the registry, beside another one
C9_Witness ==
    /\ mgr = "live" /\ db # None
    /\ \E i \in 1..Len(register_types) : register_types[i].oids = <<>>
    /\ \E i \in 1..Len(register_types) : register_types[i].oids # <<>>

\* --------------------------------------------------------------------- C10
\* Once unsubscribe() with no argument has returned while the generator runs,
\* the channel list is empty, at most one select() call returns from then on
\* and none is under way after that one, whatever is still buffered.
C10_OneMoreWait ==
    cancelled =>
       /\ channels = <<>>
       /\ waits <= 1
       /\ waits = 1 => pc # "select"

\* From then on the generator ends, unless a subscribe fills the list again.
C10_Ends == cancelled ~> (~Iterating \/ ~cancelled)

\* C10: after unsubscribe() with no argument, called while the generator
\* runs, the channel list is empty and the generator ends after at most one
\* more select() wait, also with notifications still buffered.
C10_UnsubscribeEndsStream == []C10_OneMoreWait /\ C10_Ends

\* after the unsubscribe() one select() returned with notifications to read,
\* they were read and one is still to be yielded
C10_Witness ==
    /\ cancelled /\ channels = <<>> /\ waits = 1
    /\ pc = "drain" /\ Len(notifies[ps_db]) = 2

\* --------------------------------------------------------------------- C11
\* One step of the generator as the claim has it: it returns only from the
\* loop test with the channel list empty, a select() that timed out goes back
\* to the loop test, a loop test on the empty list returns at once with
\* nothing more yielded, and nothing is yielded while the list is empty.
C11_Step ==
    IterStep =>
       /\ pc' = "done" => (pc = "check" /\ channels = <<>>)
       /\ (pc = "check" /\ channels # <<>>) => pc' = "select"
       /\ (pc = "select" /\ status[ps_db] = "open" /\ socket[ps_db] = <<>>)
             => pc' = "check"
       /\ (pc = "check" /\ channels = <<>>) => (pc' = "done" /\ yielded' = yielded)
       /\ channels = <<>> => yielded' = yielded

\* C11: the generator ends exactly when the channel list becomes empty: it
\* never returns while the list is non-empty (a select() timeout loops
\* again), started on an empty list it yields nothing and returns at once,
\* and it yields no notification after the list has become empty.
C11_StreamEndsWithSet == [][C11_Step]_vars

\* --------------------------------------------------------------------- C12
\* C12: the notifications poll() buffered for one readiness event are yielded
\* in the order they arrived: every yield hands out the one that arrived
\* first among those still buffered.
C12_ArrivalOrder ==
    [][(IterDrain /\ notifies[ps_db] # <<>>)
          => yielded' = Append(yielded, Head(notifies[ps_db]))]_vars

\* --------------------------------------------------------------------- C13
\* C13: in every state of a PubSub the names in its channel list are exactly
\* the channels its session has a LISTEN in force for (a LISTEN issued and no
\* later UNLISTEN), and the list holds no name twice.
C13_SetIsListened ==
    ps = "live" =>
       /\ Range(channels) = listening[ps_db]
       /\ \A i, j \in 1..Len(channels) : channels[i] = channels[j] => i = j

\* --------------------------------------------------------------------- C14
\* C14: listen() on an empty channel list raises the assertion's error and
\* issues no LISTEN; on a non-empty list, with the driver executing every
\* command, it issues LISTEN for every channel of the list, in the list's
\* order, and returns normally; in every case it leaves the list as it was
\* and issues nothing but LISTENs for channels of the list.
C14_Listen ==
    ps = "live" =>
       \A k \in ExecRuns(P, Len(channels)) :
          LET p == listen(P, k)
          IN  /\ channels = <<>> =>
                    /\ p.exc = "AssertionError"
                    /\ p.cmds = <<>>
                    /\ p.listening = listening
              /\ (channels # <<>> /\ k = Len(channels)) =>
                    /\ p.exc = "none"
                    /\ p.cmds = Commands("LISTEN", channels)
                    /\ Range(channels) \subseteq p.listening[ps_db]
              /\ p.channels = channels
              /\ p.db = ps_db
              /\ IsPrefix(p.cmds, Commands("LISTEN", channels))

\* listen() has run on a list of two channels: both are listened on
C14_Witness ==
    /\ ps = "live" /\ status[ps_db] = "open"
    /\ channels = <<"a", "b">>
    /\ listening[ps_db] = {"a", "b"}

\* --------------------------------------------------------------------- C15
\* a list without a name, the other names in their order
Without(chs, ch) == SelectSeq(chs, LAMBDA c : c # ch)

\* C15: unsubscribe(channel) for a channel that is not in the list raises the
\* assertion's error, issues no UNLISTEN and leaves the list as it was; for a
\* channel of the list, with the driver executing the command, it issues
\* UNLISTEN for exactly that channel and removes it from the list, the other
\* channels keeping their order.
C15_UnsubscribeOne ==
    ps = "live" =>
       \A ch \in Channels : \A k \in ExecRuns(P, 1) :
          LET p == unsubscribe(P, ch, k)
          IN  /\ ch \notin Range(channels) =>
                    /\ p.exc = "AssertionError"
                    /\ p.cmds = <<>>
                    /\ p.channels = channels
                    /\ p.listening = listening
              /\ (ch \in Range(channels) /\ k = 1) =>
                    /\ p.exc = "none"
                    /\ p.cmds = <<<<"UNLISTEN", ch>>>>
                    /\ ch \notin Range(p.channels)
                    /\ p.channels = Without(channels, ch)

C17_UnsubscribeAll ==
    ps = "live" =>
       \A k \in ExecRuns(P, Len(channels)) :
          LET p == unsubscribe(P, NoChannel, k)
          IN  /\ k = Len(channels) =>
                    /\ p.exc = "none"
                    /\ p.cmds = Commands("UNLISTEN", channels)
                    /\ p.channels = <<>>
                    /\ p.listening[ps_db] = listening[ps_db] \ Range(channels)
              /\ channels = <<>> => (p.cmds = <<>> /\ p.listening = listening)
              /\ IsPrefix(p.cmds, Commands("UNLISTEN", channels))

\* unsubscribe() has returned while the generator ran, after a notification
\* was yielded: the list is empty and nothing is listened on any more
C17_Witness ==
    /\ ps = "live" /\ status[ps_db] = "open"
    /\ cancelled /\ channels = <<>>
    /\ listening[ps_db] = {}
    /\ yielded # <<>>

\* --------------------------------------------------------------------- C18
\* No notification is held twice: what the generator has yielded and what the
\* handle still buffers for it are all different notifications.
C18_Once ==
    ps = "live" =>
       LET all == yielded \o notifies[ps_db]
       IN  \A i, j \in 1..Len(all) : all[i] = all[j] => i = j

\* A yield takes exactly one notification out of the handle's buffer and
\* hands out that one; nothing leaves a buffer in any other way; and the
\* generator goes back to the loop test, and so to select(), only with the
\* buffer empty.
C18_Step ==
    /\ (IterDrain /\ notifies[ps_db] # <<>>) =>
          \E i \in 1..Len(notifies[ps_db]) :
             /\ yielded' = Append(yielded, notifies[ps_db][i])
             /\ notifies'[ps_db] = SubSeq(notifies[ps_db], 1, i - 1)
                                      \o SubSeq(notifies[ps_db], i + 1,
                                                Len(notifies[ps_db]))
    /\ \A h \in Handles :
          \/ IsPrefix(notifies[h], notifies'[h])
          \/ IterDrain /\ h = ps_db /\ Len(notifies'[h]) = Len(notifies[h]) - 1
    /\ (IterDrain /\ pc' = "check") => notifies[ps_db] = <<>>
    /\ (IterStep /\ pc' = "select") => pc = "check"

\* C18: on each readiness event the generator yields every notification the
\* driver has buffered before it waits in select() again, and each
\* notification the driver buffered is yielded exactly once, none dropped and
\* none twice.
C18_DrainsAll == []C18_Once /\ [][C18_Step]_vars

\* two notifications of one readiness event have both been yielded and the
\* generator waits in select() again, the list still non-empty
C18_Witness ==
    /\ ps = "live" /\ pc = "select" /\ channels # <<>>
    /\ Len(yielded) = 2 /\ notifies[ps_db] = <<>>

\* --------------------------------------------------------------------- C19
\* C19: whenever a PubSub issues LISTEN or UNLISTEN, or its generator calls
\* select() or poll(), the handle it uses is the one the manager holds at
\* that time, and that handle is open: also after the manager reconnected,
\* was closed or lost its handle to an operational fault.
C19_BoundToCurrentHandle ==
    [][(\/ IterSelect
        \/ IterPoll
        \/ (Listen \/ Unsubscribe) /\ listening' # listening)
          => (ps_db = db /\ status[ps_db] = "open")]_vars

\* --------------------------------------------------------------------- C20
\* C20: a statement called with a handle held whose cursor.execute raises an
\* error that is not an operational fault ends with that error raised to the
\* caller and changes nothing of the connection: the same handle is held and
\* is open, nothing was closed, psycopg2.connect was not called, and the
\* registry and the decoders in force are as before.
C20_OtherErrorsKeepConnection ==
    (mgr = "live" /\ db # None) =>
       \A r \in StatementRuns(db, status) :
          LET m == runStatement(M, r[1][1], r[1][2], r[2])
          IN  r[2] = "ProgrammingError" =>
                 /\ m.exc = "ProgrammingError"
                 /\ m.driver = "ProgrammingError"
                 /\ m.used = db
                 /\ m.db = db
                 /\ m.status = status
                 /\ m.closes = closes
                 /\ m.attempts = 0
                 /\ m.faulted = faulted
                 /\ m.types = register_types
                 /\ m.typecasters = typecasters
                 /\ m.applied = applied

\* a manager on its second handle, with a decoder registered, on which a
\* statement can fail with a non-operational error
C20_Witness ==
    /\ mgr = "live" /\ db = 2 /\ status[2] = "open"
    /\ Len(register_types) >= 1
    /\ \E r \in StatementRuns(db, status) :
          /\ r[2] = "ProgrammingError"
          /\ runStatement(M, r[1][1], r[1][2], r[2]).exc = "ProgrammingError"

=============================================================================
